---------------------------- MODULE Spec2Model ----------------------------
(***************************************************************************)
(* Semantic cache with TTL (utils/rag_manager.py, class RAGManager) and    *)
(* the web content summarizer in front of it (tools/web_explorer.py,       *)
(* WebExplorer.get_website_summary).                                       *)
(*                                                                         *)
(* Texts are sequences of one-character strings.  The embedding provider   *)
(* is an external capability: the model fixes an arbitrary embedding of    *)
(* every text at start-up and never changes it.  The vector index ranks by *)
(* distance to the query vector; equal distances rank in any order.        *)
(* Time is counted in ticks, TicksPerDay ticks to a day, so that "age in   *)
(* whole days" is a real floor.                                            *)
(***************************************************************************)
EXTENDS Integers, Sequences, FiniteSets, TLC

VARIABLES emb, now, up, docs, disk, op, filledAt, req, tool

vars == <<emb, now, up, docs, disk, op, filledAt, req, tool>>

-----------------------------------------------------------------------------
(* Bounds of the model *)

MaxDocs == 3
MaxCoord == 2
TicksPerDay == 2
TtlDays == 0
MaxTopK == 2
SampleCap == 2
MaxNow == (TtlDays + 1) * TicksPerDay
MaxSqlLen == 3
MaxFound == 3

-----------------------------------------------------------------------------
(* Values *)

None == <<"None">>
EmptyStr == <<>>

Names == { <<"a">>, <<"A", "b">> }
Contents == { <<"x">>, <<"y">> }
Initialization == <<"i">>
StatsQuery == <<"q">>
Texts == Names \cup Contents \cup {Initialization, StatsQuery}

(* A URL string, kept with the parts urlparse() finds in it *)
GoodUrl == [raw |-> "https://h", scheme |-> "https", netloc |-> "h"]
NoSchemeUrl == [raw |-> "//h", scheme |-> "", netloc |-> "h"]
NoHostUrl == [raw |-> "https:", scheme |-> "https", netloc |-> ""]
PlainUrl == [raw |-> "not-a-valid-url", scheme |-> "", netloc |-> ""]
EmptyUrl == [raw |-> "", scheme |-> "", netloc |-> ""]
Urls == {GoodUrl, NoSchemeUrl, NoHostUrl, PlainUrl, EmptyUrl}

urlparse(url) == [scheme |-> url.scheme, netloc |-> url.netloc]

BreweryTypes == {"micro"}

Truthy(x) == x # None /\ x # EmptyStr

Lower(c) == CASE c = "A" -> "a" [] c = "B" -> "b" [] OTHER -> c

LowerStr(s) == [i \in 1..Len(s) |-> Lower(s[i])]

Contains(s, t) ==
    \E i \in 0..(Len(t) - Len(s)) : \A j \in 1..Len(s) : t[i + j] = s[j]

Abs(x) == IF x < 0 THEN -x ELSE x

Min(a, b) == IF a < b THEN a ELSE b

Some(x) == <<x>>
Nothing == <<>>

-----------------------------------------------------------------------------
(* Timestamps: datetime.now().isoformat() and datetime.fromisoformat() *)

IsoFormat(t) == [kind |-> "iso", t |-> t]
NoDate == [kind |-> "none", t |-> 0]
EmptyDate == [kind |-> "empty", t |-> 0]
BadDate == [kind |-> "bad", t |-> 0]

(* Faulty variant: a text that is no timestamp counts as no timestamp *)
DateTruthy_parseable(d) == d.kind = "iso"

DateTruthy(d) == d.kind \in {"iso", "bad"}

Parses(d) == d.kind = "iso"

FromIsoFormat(d) == d.t

(* Faulty variant: the age is never counted *)
AgeDays_frozen(created, at) == 0

AgeDays(created, at) == (at - created) \div TicksPerDay

-----------------------------------------------------------------------------
(* The vector index: documents, embedding, nearest-neighbour search *)

ttl_days == TtlDays

Dist(q, d) == Abs(emb[q] - d.vec)

EmbeddedText(page_content, metadata) == page_content

Document(page_content, metadata) ==
    [page_content |-> page_content,
     type |-> metadata.type,
     brewery_name |-> metadata.brewery_name,
     url |-> metadata.url,
     brewery_type |-> metadata.brewery_type,
     creation_date |-> metadata.creation_date,
     vec |-> emb[EmbeddedText(page_content, metadata)]]

(* Faulty variant: the bootstrap document is not marked as a system entry *)
dummy_doc_unmarked(at) ==
    Document(Initialization,
             [type |-> "None", creation_date |-> IsoFormat(at),
              brewery_name |-> None, url |-> EmptyUrl, brewery_type |-> "None"])

dummy_doc(at) ==
    Document(Initialization,
             [type |-> "system", creation_date |-> IsoFormat(at),
              brewery_name |-> None, url |-> EmptyUrl, brewery_type |-> "None"])

(* Faulty variant: the newest entry is ranked first *)
RankedOrders_newest_first(store, q) ==
    { p \in [1..Len(store) -> 1..Len(store)] :
        \A i \in 1..Len(store) : p[i] = Len(store) + 1 - i }

RankedOrders(store, q) ==
    { p \in [1..Len(store) -> 1..Len(store)] :
        /\ \A i, j \in 1..Len(store) : i # j => p[i] # p[j]
        /\ \A i, j \in 1..Len(store) :
              i < j => Dist(q, store[p[i]]) <= Dist(q, store[p[j]]) }

similarity_search(store, q, k) ==
    { [i \in 1..Min(k, Len(store)) |-> store[p[i]]] : p \in RankedOrders(store, q) }

(* Faulty variant: a search drops the entry added last *)
store_after_search_evicting(store) ==
    IF Len(store) > 1 THEN SubSeq(store, 1, Len(store) - 1) ELSE store

(* The index after vectorstore.similarity_search: a search only reads it *)
store_after_search(store) == store

(* Faulty variant: the new entry takes the place of the entries of its name *)
add_documents_upsert(store, d) ==
    Append(SelectSeq(store, LAMBDA e : e.brewery_name # d.brewery_name), d)

add_documents(store, d) == Append(store, d)

-----------------------------------------------------------------------------
(* RAGManager *)

(* Faulty variant: an entry aged exactly ttl_days counts as expired *)
is_cache_valid_strict(creation_date, at) ==
    IF Parses(creation_date)
    THEN AgeDays(FromIsoFormat(creation_date), at) < ttl_days
    ELSE FALSE

is_cache_valid(creation_date, at) ==
    IF Parses(creation_date)
    THEN AgeDays(FromIsoFormat(creation_date), at) <= ttl_days
    ELSE FALSE

ResultOf(top_doc) ==
    [brewery_name |-> top_doc.brewery_name,
     url |-> top_doc.url,
     summary |-> top_doc.page_content,
     brewery_type |-> top_doc.brewery_type,
     creation_date |-> top_doc.creation_date]

CachedName(metadata) ==
    IF metadata.brewery_name = None THEN EmptyStr ELSE LowerStr(metadata.brewery_name)

(* Faulty variant: the stored name is looked for in the name asked for *)
NameMatches_reversed(brewery_name, metadata) ==
    Contains(CachedName(metadata), LowerStr(brewery_name))

NameMatches(brewery_name, metadata) ==
    Contains(LowerStr(brewery_name), CachedName(metadata))

Miss == [entry |-> Nothing, status |-> "CACHE_MISS", raised |-> FALSE]

(* Faulty variant: the bootstrap entry is not told from a summary *)
NothingFound_any_kind(found) == found = <<>>

(* "if not docs or docs[0].metadata.get('type') == 'system'" *)
NothingFound(found) == found = <<>> \/ found[1].type = "system"

(* Faulty variant: the entry is handed out although its timestamp is missing *)
NoDateResult_with_entry(top_doc) ==
    [entry |-> Some(ResultOf(top_doc)), status |-> "CACHE_STALE", raised |-> FALSE]

(* "if not creation_date": the result when the timestamp is missing *)
NoDateResult(top_doc) == [entry |-> Nothing, status |-> "CACHE_STALE", raised |-> FALSE]

StaleResult(top_doc) ==
    [entry |-> Some(ResultOf(top_doc)), status |-> "CACHE_STALE", raised |-> FALSE]

HitResult(top_doc) ==
    [entry |-> Some(ResultOf(top_doc)), status |-> "CACHE_HIT", raised |-> FALSE]

(* The body of search_cache's try block, for the documents the index found *)
search_cache_body(found, brewery_name, at) ==
    IF NothingFound(found)
    THEN Miss
    ELSE IF Truthy(brewery_name) /\ ~NameMatches(brewery_name, found[1])
    THEN Miss
    ELSE IF ~DateTruthy(found[1].creation_date)
    THEN NoDateResult(found[1])
    ELSE IF ~is_cache_valid(found[1].creation_date, at)
    THEN StaleResult(found[1])
    ELSE HitResult(found[1])

(* Faulty variant: the except clause lets the error through *)
search_cache_reraise == [entry |-> Nothing, status |-> "N/A", raised |-> TRUE]

(* search_cache's except clause *)
search_cache_except == [entry |-> Nothing, status |-> "CACHE_MISS", raised |-> FALSE]

search_cache(found, brewery_name, at, searchOk) ==
    IF searchOk THEN search_cache_body(found, brewery_name, at)
    ELSE search_cache_except

NewDocument(brewery_name, url, summary, brewery_type, at) ==
    Document(summary,
             [brewery_name |-> brewery_name, url |-> url,
              brewery_type |-> brewery_type,
              creation_date |-> IsoFormat(at), type |-> "brewery_summary"])

(* Faulty variant: the except clause reports success *)
add_to_cache_swallow(store) == [store |-> store, ok |-> TRUE, raised |-> FALSE]

(* add_to_cache's except clause *)
add_to_cache_except(store) == [store |-> store, ok |-> FALSE, raised |-> FALSE]

add_to_cache(store, brewery_name, url, summary, brewery_type, at, writeOk) ==
    IF writeOk
    THEN [store |-> add_documents(store,
                       NewDocument(brewery_name, url, summary, brewery_type, at)),
          ok |-> TRUE, raised |-> FALSE]
    ELSE add_to_cache_except(store)

update_cache_entry(store, brewery_name, url, summary, brewery_type, at, writeOk) ==
    add_to_cache(store, brewery_name, url, summary, brewery_type, at, writeOk)

StatsK == 100

(* The width of the statistics sample.  The indexes of the model hold at    *)
(* most MaxDocs entries, so the width is cut to SampleCap to have indexes   *)
(* larger than the sample.                                                  *)
StatsWidth == Min(StatsK, SampleCap)

(* Faulty variant: the entries that are not summaries are the ones counted *)
IsSummary_inverted(d) == d.type # "brewery_summary"

IsSummary(d) == d.type = "brewery_summary"

CountIn(flags) == Cardinality({i \in 1..Len(flags) : flags[i]})

(* Faulty variant: every summary with a timestamp counts as valid *)
IsValidEntry_any_age(d, at) == IsSummary(d) /\ DateTruthy(d.creation_date)

IsValidEntry(d, at) ==
    IsSummary(d) /\ DateTruthy(d.creation_date) /\ is_cache_valid(d.creation_date, at)

IsStaleEntry(d, at) ==
    IsSummary(d) /\ ~(DateTruthy(d.creation_date) /\ is_cache_valid(d.creation_date, at))

(* get_cache_stats's except clause *)
get_cache_stats_except ==
    [total_entries |-> 0, valid_entries |-> 0, stale_entries |-> 0,
     ttl_days |-> ttl_days, raised |-> FALSE]

get_cache_stats(all_docs, at, searchOk) ==
    IF searchOk
    THEN [total_entries |-> CountIn([i \in 1..Len(all_docs) |-> IsSummary(all_docs[i])]),
          valid_entries |-> CountIn([i \in 1..Len(all_docs) |-> IsValidEntry(all_docs[i], at)]),
          stale_entries |-> CountIn([i \in 1..Len(all_docs) |-> IsStaleEntry(all_docs[i], at)]),
          ttl_days |-> ttl_days, raised |-> FALSE]
    ELSE get_cache_stats_except

-----------------------------------------------------------------------------
(* The on-disk snapshot and construction *)

(* The path: no directory, a directory without index file, index files    *)
(* that cannot be read, index files holding a snapshot                     *)
NoDir == [state |-> "nodir", docs |-> <<>>]
Absent == [state |-> "absent", docs |-> <<>>]
Corrupt == [state |-> "corrupt", docs |-> <<>>]

(* Faulty variant: only the first entry reaches the disk *)
Snapshot_first_only(store) == [state |-> "ok", docs |-> SubSeq(store, 1, 1)]

Snapshot(store) == [state |-> "ok", docs |-> store]

(* "self.index_path.mkdir(parents=True, exist_ok=True)" *)
mkdir(d) == IF d = NoDir THEN Absent ELSE d

index_file_exists(d) == d.state \notin {"nodir", "absent"}

(* Faulty variant: a snapshot that cannot be read makes construction fail *)
load_or_create_index_propagate(d, at, loadOk, embedOk) ==
    IF index_file_exists(d)
    THEN IF d.state = "ok" /\ loadOk
         THEN [store |-> d.docs, raised |-> FALSE]
         ELSE [store |-> <<>>, raised |-> TRUE]
    ELSE IF embedOk
    THEN [store |-> <<dummy_doc(at)>>, raised |-> FALSE]
    ELSE [store |-> <<>>, raised |-> TRUE]

(* _load_or_create_index: the load is tried when the index file exists and *)
(* falls through to a fresh index when it fails; embedding the bootstrap    *)
(* document is outside any try block.                                       *)
load_or_create_index(d, at, loadOk, embedOk) ==
    IF index_file_exists(d) /\ d.state = "ok" /\ loadOk
    THEN [store |-> d.docs, raised |-> FALSE]
    ELSE IF embedOk
    THEN [store |-> <<dummy_doc(at)>>, raised |-> FALSE]
    ELSE [store |-> <<>>, raised |-> TRUE]

(* RAGManager.__init__: a failure to set up the embedding client is logged  *)
(* and raised again.                                                        *)
init_except == [store |-> <<>>, raised |-> TRUE]

RAGManager(d, at, embeddingsOk, loadOk, embedOk) ==
    IF embeddingsOk THEN load_or_create_index(d, at, loadOk, embedOk)
    ELSE init_except

(* What can go wrong while the snapshot is written: nothing, a failure that *)
(* leaves the old files, a failure that leaves unreadable files.            *)
SaveFaults == {"none", "kept", "torn"}

(* Faulty variant: the except clause lets the error through *)
save_index_reraise(d, fault) ==
    [disk |-> IF fault = "torn" THEN Corrupt ELSE d, ok |-> FALSE, raised |-> TRUE]

(* save_index's except clause *)
save_index_except(d, fault) ==
    [disk |-> IF fault = "torn" THEN Corrupt ELSE d, ok |-> FALSE, raised |-> FALSE]

(* Faulty variant: success is reported and nothing is written *)
save_index_noop(d, store, fault) == [disk |-> d, ok |-> TRUE, raised |-> FALSE]

save_index(d, store, fault) ==
    IF fault = "none"
    THEN [disk |-> Snapshot(store), ok |-> TRUE, raised |-> FALSE]
    ELSE save_index_except(d, fault)

(* Snapshots found at the path that an earlier producer wrote: a bootstrap  *)
(* entry followed by one summary whose creation_date is absent, empty or    *)
(* not an ISO timestamp.                                                    *)
ForeignDoc(date) ==
    Document(<<"y">>,
             [type |-> "brewery_summary", creation_date |-> date,
              brewery_name |-> <<"A", "b">>, url |-> GoodUrl,
              brewery_type |-> "micro"])

ForeignDates == {NoDate, EmptyDate, BadDate}

InitialDisks ==
    {Absent} \cup { Snapshot(<<dummy_doc(0), ForeignDoc(d)>>) : d \in ForeignDates }

-----------------------------------------------------------------------------
(* The record of the last call: its arguments and what it returned *)

NoStats == [total_entries |-> -1, valid_entries |-> -1, stale_entries |-> -1,
            ttl_days |-> -1, raised |-> FALSE]

Blank ==
    [name |-> "none", query |-> None, brewery_name |-> None,
     url |-> EmptyUrl, summary |-> None, failed |-> FALSE,
     entry |-> Nothing, status |-> "N/A", ok |-> FALSE, raised |-> FALSE,
     stats |-> NoStats, source |-> "N/A", error |-> "N/A", calls |-> <<>>,
     top |-> Nothing, path |-> "N/A", held |-> 0, grounded |-> None]

(* The other tools of the agent (SQL runner, brewery finder) are called    *)
(* once with a request; req is the request with what its collaborators     *)
(* will answer, tool what the call did and returned.                        *)
NoRequest == [name |-> "none"]
Idle == [name |-> "idle"]

-----------------------------------------------------------------------------
(* Operations of RAGManager *)

(* The embeddings considered, as points of a line: the bootstrap text and  *)
(* lies at the origin, the two summaries at two other points, and each     *)
(* name and the statistics query lie either at the origin or at the far    *)
(* end.  Two stored vectors are then at the same distance from a query     *)
(* only when their texts are the same.                                      *)
EmbTables ==
    { e \in [Texts -> 0..MaxCoord] :
        /\ e[Initialization] = 0
        /\ e[StatsQuery] \in {0, MaxCoord}
        /\ e[<<"x">>] = MaxCoord - 1
        /\ e[<<"y">>] = MaxCoord
        /\ \A n \in Names : e[n] \in {0, MaxCoord} }

Init ==
    /\ emb \in EmbTables
    /\ now = 0
    /\ up = TRUE
    /\ disk \in InitialDisks
    /\ docs = RAGManager(disk, 0, TRUE, TRUE, TRUE).store
    /\ op = [Blank EXCEPT !.name = "init"]
    /\ filledAt = [n \in Names |-> -1]
    /\ req = NoRequest
    /\ tool = Idle

Tick ==
    /\ now < MaxNow
    /\ now' = now + 1
    /\ op' = [Blank EXCEPT !.name = "tick"]
    /\ UNCHANGED <<req, tool, emb, up, docs, disk, filledAt>>

(* What can go wrong while an instance is constructed: the embedding       *)
(* client cannot be set up, the snapshot cannot be read, the bootstrap      *)
(* document cannot be embedded.                                             *)
InitFaults == {"none", "embeddings", "load", "embed", "load+embed"}

(* A new instance at the same path; what the old one held in memory is     *)
(* gone.  The call record keeps what was found at the path and how many    *)
(* entries the old instance held.                                          *)
Construct ==
    /\ \E fault \in InitFaults :
         LET r == RAGManager(mkdir(disk), now, fault # "embeddings",
                             fault \notin {"load", "load+embed"},
                             fault \notin {"embed", "load+embed"})
         IN  /\ up' = ~r.raised
             /\ docs' = r.store
             /\ op' = [Blank EXCEPT !.name = "init", !.raised = r.raised,
                                    !.failed = (fault # "none"), !.error = fault,
                                    !.path = disk.state, !.held = Len(docs)]
    /\ disk' = mkdir(disk)
    /\ filledAt' = [n \in Names |-> -1]
    /\ UNCHANGED <<req, tool, emb, now>>

(* The directory of the index is removed from outside (shutil.rmtree) *)
DeleteIndexDir ==
    /\ disk # NoDir
    /\ disk' = NoDir
    /\ op' = [Blank EXCEPT !.name = "rmtree"]
    /\ UNCHANGED <<req, tool, emb, now, up, docs, filledAt>>

SearchCache(query, top_k, brewery_name) ==
    /\ up
    /\ \E searchOk \in BOOLEAN :
         \E found \in (IF searchOk THEN similarity_search(docs, query, top_k)
                                   ELSE {<<>>}) :
            LET r == search_cache(found, brewery_name, now, searchOk)
            IN  op' = [Blank EXCEPT !.name = "search_cache", !.query = query,
                                    !.brewery_name = brewery_name,
                                    !.failed = ~searchOk,
                                    !.top = IF found = <<>> THEN Nothing
                                            ELSE Some(found[1]),
                                    !.entry = r.entry, !.status = r.status,
                                    !.raised = r.raised]
    /\ docs' = store_after_search(docs)
    /\ UNCHANGED <<req, tool, emb, now, up, disk, filledAt>>

AddToCache(brewery_name, url, summary, brewery_type) ==
    /\ up
    /\ Len(docs) < MaxDocs
    /\ \E writeOk \in BOOLEAN :
         LET r == add_to_cache(docs, brewery_name, url, summary, brewery_type,
                               now, writeOk)
         IN  /\ docs' = r.store
             /\ op' = [Blank EXCEPT !.name = "add_to_cache",
                                    !.brewery_name = brewery_name,
                                    !.url = url, !.summary = summary,
                                    !.failed = ~writeOk, !.ok = r.ok,
                                    !.raised = r.raised]
    /\ UNCHANGED <<req, tool, emb, now, up, disk, filledAt>>

UpdateCacheEntry(brewery_name, url, summary, brewery_type) ==
    /\ up
    /\ Len(docs) < MaxDocs
    /\ \E writeOk \in BOOLEAN :
         LET r == update_cache_entry(docs, brewery_name, url, summary, brewery_type,
                                     now, writeOk)
         IN  /\ docs' = r.store
             /\ op' = [Blank EXCEPT !.name = "update_cache_entry",
                                    !.brewery_name = brewery_name,
                                    !.url = url, !.summary = summary,
                                    !.failed = ~writeOk, !.ok = r.ok,
                                    !.raised = r.raised]
    /\ UNCHANGED <<req, tool, emb, now, up, disk, filledAt>>

SaveIndex ==
    /\ up
    /\ \E fault \in SaveFaults :
         LET r == save_index(disk, docs, fault)
         IN  /\ disk' = r.disk
             /\ op' = [Blank EXCEPT !.name = "save_index", !.failed = (fault # "none"),
                                    !.ok = r.ok, !.raised = r.raised]
    /\ UNCHANGED <<req, tool, emb, now, up, docs, filledAt>>

GetCacheStats ==
    /\ up
    /\ \E searchOk \in BOOLEAN :
         \E all_docs \in (IF searchOk THEN similarity_search(docs, StatsQuery, StatsWidth)
                                      ELSE {<<>>}) :
            LET r == get_cache_stats(all_docs, now, searchOk)
            IN  op' = [Blank EXCEPT !.name = "get_cache_stats", !.failed = ~searchOk,
                                    !.stats = r, !.raised = r.raised]
    /\ docs' = store_after_search(docs)
    /\ UNCHANGED <<req, tool, emb, now, up, disk, filledAt>>

-----------------------------------------------------------------------------
(* WebExplorer *)

(* Faulty variant: a URL with a scheme and no host is accepted *)
is_valid_url_scheme_only(url) == urlparse(url).scheme # ""

is_valid_url(url) == urlparse(url).scheme # "" /\ urlparse(url).netloc # ""

UrlTruthy(url) == url.raw # ""

ErrorMsg == <<"e">>

(* What the grounded search can return: nothing (it failed), an empty      *)
(* text, or a summary.                                                     *)
GroundedResults == {None, EmptyStr, <<"y">>}

(* What can go wrong while the summarizer runs: the lookup, the write to   *)
(* the index, the write of the snapshot.                                   *)
WebFaults == {"search", "write"} \cup SaveFaults

(* Faulty variant: the entry found is never used *)
CacheHit_refetch(looked) == FALSE

(* Faulty variant: whatever entry the lookup returned is served *)
CacheHit_any_entry(looked) == looked.entry # Nothing

(* "if cache_status == 'CACHE_HIT' and cached_result" *)
CacheHit(looked) == looked.status = "CACHE_HIT" /\ looked.entry # Nothing

(* Faulty variant: the snapshot is written although nothing was learned *)
GroundingFailed_persisted(store, d, looked) ==
    [store |-> store, disk |-> Snapshot(store),
     calls |-> <<"search_cache", "grounded_search_summary", "save_index">>,
     summary |-> ErrorMsg, source |-> "web_search",
     cache_status |-> looked.status, error |-> "GROUNDING_FAILED",
     filled |-> FALSE]

(* The result returned when the grounded search gave no summary *)
GroundingFailed(store, d, looked) ==
    [store |-> store, disk |-> d,
     calls |-> <<"search_cache", "grounded_search_summary">>,
     summary |-> ErrorMsg, source |-> "web_search",
     cache_status |-> looked.status, error |-> "GROUNDING_FAILED",
     filled |-> FALSE]

(* "if not summary" *)
NoSummary(summary) == ~Truthy(summary)

(* Faulty variant: a stale entry is not refreshed *)
NeedsUpdate_miss_only(cache_status) == cache_status = "CACHE_MISS"

(* "if cache_status in ['CACHE_MISS', 'CACHE_STALE']" *)
NeedsUpdate(cache_status) == cache_status \in {"CACHE_MISS", "CACHE_STALE"}

(* Faulty variant: a cache that could not be filled is reported as an error *)
WebSearchResult_masked(store, d, calls, summary, looked, filled) ==
    [store |-> store, disk |-> d, calls |-> calls,
     summary |-> IF filled /\ d = Snapshot(store) THEN summary ELSE ErrorMsg,
     source |-> "web_search", cache_status |-> looked.status,
     error |-> IF filled /\ d = Snapshot(store) THEN "N/A" ELSE "CACHE_FAILED",
     filled |-> filled]

(* The result returned after a grounded search that gave a summary *)
WebSearchResult(store, d, calls, summary, looked, filled) ==
    [store |-> store, disk |-> d, calls |-> calls,
     summary |-> summary, source |-> "web_search",
     cache_status |-> looked.status, error |-> "N/A", filled |-> filled]

(* get_website_summary: found is what the index returns for the lookup,     *)
(* grounded what the grounded search returns; the result carries the new    *)
(* index, the new snapshot, the returned dictionary and the calls made.     *)
get_website_summary(store, d, brewery_name, url, brewery_type, at, searchOk, found, grounded, fault) ==
    LET looked == search_cache(found, brewery_name, at, searchOk)
        added == add_to_cache(store, brewery_name, url, grounded, brewery_type,
                              at, fault # "write")
        saved == save_index(d, added.store,
                            IF fault \in SaveFaults THEN fault ELSE "none")
    IN  IF ~UrlTruthy(url) \/ ~is_valid_url(url)
        THEN [store |-> store, disk |-> d, calls |-> <<>>,
              summary |-> ErrorMsg, source |-> "error", cache_status |-> "N/A",
              error |-> "INVALID_URL", filled |-> FALSE]
        ELSE IF CacheHit(looked)
        THEN [store |-> store, disk |-> d, calls |-> <<"search_cache">>,
              summary |-> looked.entry[1].summary, source |-> "cache_hit",
              cache_status |-> looked.status, error |-> "N/A", filled |-> FALSE]
        ELSE IF NoSummary(grounded)
        THEN GroundingFailed(store, d, looked)
        ELSE IF NeedsUpdate(looked.status)
        THEN IF added.ok
             THEN WebSearchResult(added.store, saved.disk,
                                  <<"search_cache", "grounded_search_summary",
                                    "add_to_cache", "save_index">>,
                                  grounded, looked, TRUE)
             ELSE WebSearchResult(added.store, d,
                                  <<"search_cache", "grounded_search_summary",
                                    "add_to_cache">>,
                                  grounded, looked, FALSE)
        ELSE WebSearchResult(store, d,
                             <<"search_cache", "grounded_search_summary">>,
                             grounded, looked, FALSE)

GetWebsiteSummary(brewery_name, url, brewery_type) ==
    /\ up
    /\ \E run \in (IF UrlTruthy(url) /\ is_valid_url(url)
                   THEN GroundedResults \X WebFaults
                   ELSE {<<None, "none">>}) :
         \E found \in (IF run[2] # "search"
                       THEN similarity_search(docs, brewery_name, 1)
                       ELSE {<<>>}) :
            LET r == get_website_summary(docs, disk, brewery_name, url, brewery_type,
                                         now, run[2] # "search", found, run[1],
                                         run[2])
            IN  /\ Len(r.store) <= MaxDocs
                /\ docs' = r.store
                /\ disk' = r.disk
                /\ filledAt' = IF r.filled
                               THEN [filledAt EXCEPT ![brewery_name] = now]
                               ELSE filledAt
                /\ op' = [Blank EXCEPT !.name = "get_website_summary",
                                       !.brewery_name = brewery_name, !.url = url,
                                       !.summary = r.summary, !.source = r.source,
                                       !.status = r.cache_status, !.error = r.error,
                                       !.calls = r.calls,
                                       !.failed = (run[2] = "search"),
                                       !.top = IF r.calls = <<>> \/ found = <<>>
                                               THEN Nothing ELSE Some(found[1]),
                                       !.grounded = IF Len(r.calls) >= 2
                                                    THEN run[1] ELSE None,
                                       !.ok = r.filled]
    /\ UNCHANGED <<req, tool, emb, now, up>>

-----------------------------------------------------------------------------
(* SQLRunner (tools/sql_runner.py).  An SQL text is a sequence of tokens:   *)
(* words, a blank, a semicolon, and "fence" for a markdown code fence.      *)

SqlTokens ==
    {"SELECT", " ", ";", "DROP", "dropped", "client_id", "me", "count(", "fence"}

SqlTexts == UNION { [1..n -> SqlTokens] : n \in 1..MaxSqlLen }

(* str.lower() *)
SqlLowerToken(t) == CASE t = "SELECT" -> "select" [] t = "DROP" -> "drop" [] OTHER -> t

SqlLower(sql) == [i \in 1..Len(sql) |-> SqlLowerToken(sql[i])]

(* str.strip(): the blanks at both ends are dropped *)
SqlStrip(sql) ==
    LET first == { i \in 1..Len(sql) : sql[i] # " " }
    IN  IF first = {} THEN <<>>
        ELSE SubSeq(sql, CHOOSE i \in first : \A j \in first : i <= j,
                         CHOOSE i \in first : \A j \in first : j <= i)

(* " ".join(s.split()): stripped, and every run of blanks made one blank *)
SqlNormalize(sql) ==
    LET t == SqlStrip(sql)
        keep == { i \in 1..Len(t) : ~(t[i] = " " /\ t[i + 1] = " ") }
    IN  [k \in 1..Cardinality(keep) |->
            t[CHOOSE i \in keep : Cardinality({ j \in keep : j <= i }) = k]]

(* str.split(";"), as the set of the parts *)
SqlParts(sql) ==
    LET starts == {1} \cup { i + 1 : i \in { j \in 1..Len(sql) : sql[j] = ";" } }
        stop(a) == IF \E j \in a..Len(sql) : sql[j] = ";"
                   THEN (CHOOSE j \in a..Len(sql) :
                            sql[j] = ";" /\ \A k \in a..(j - 1) : sql[k] # ";") - 1
                   ELSE Len(sql)
    IN  { SubSeq(sql, a, stop(a)) : a \in starts }

FORBIDDEN_KEYWORDS ==
    { "insert", "update", "delete", "drop", "truncate", "alter", "create",
      "replace", "rename", "grant", "revoke", "attach", "detach", "pragma" }

(* keyword in text: a keyword is found wherever it occurs, inside a longer  *)
(* word too                                                                 *)
KeywordsIn(token) == IF token \in {"drop", "dropped"} THEN {"drop"} ELSE {}

HasForbidden(sql) ==
    \E i \in 1..Len(sql) : KeywordsIn(sql[i]) \cap FORBIDDEN_KEYWORDS # {}

StartsWithSelect(sql) == sql # <<>> /\ sql[1] = "select"

(* Faulty variant: only the first statement is looked at *)
validate_read_only_first_statement(sql_query) ==
    /\ SqlNormalize(SqlLower(sql_query)) # <<>>
    /\ SqlNormalize(SqlLower(sql_query))[1] = "select"

validate_read_only(sql_query) ==
    LET sql_normalized == SqlNormalize(SqlLower(sql_query))
    IN  IF HasForbidden(sql_normalized)
        THEN FALSE
        ELSE IF ~StartsWithSelect(sql_normalized)
        THEN FALSE
        ELSE IF \E i \in 1..Len(sql_normalized) : sql_normalized[i] = ";"
        THEN \A part \in SqlParts(sql_normalized) :
                SqlStrip(part) = <<>> \/ StartsWithSelect(SqlStrip(part))
        ELSE TRUE

(* The answers of the database to one text: db.run raises; db.run finds    *)
(* nothing; db.run finds rows but the second read finds none; a row.        *)
DbOutcomes == {"error", "empty", "gone", "row"}

Row == <<"row">>
Rows == <<"rows">>

(* The generated text after response.content.strip() and the removal of    *)
(* the markdown fences                                                      *)
IsNotFence(t) == t # "fence"

CleanSql(content) ==
    LET sql_query == SqlStrip(content)
    IN  IF sql_query # <<>> /\ sql_query[1] = "fence"
        THEN SqlStrip(SelectSeq(sql_query, IsNotFence))
        ELSE sql_query

(* _execute_query: the texts handed to the database, and the result *)
execute_query(sql_query, outcome) ==
    IF ~validate_read_only(sql_query)
    THEN [calls |-> <<>>, result |-> None]
    ELSE IF outcome \in {"error", "empty"}
    THEN [calls |-> <<sql_query>>, result |-> None]
    ELSE IF outcome = "gone"
    THEN [calls |-> <<sql_query, sql_query>>, result |-> None]
    ELSE [calls |-> <<sql_query, sql_query>>, result |-> Row]

LlmFailure == <<"LlmFailure">>

AuthIds == { <<"me">>, <<"me", ";", "DROP">> }

ContextQuery(authenticated_client_id) ==
    <<"SELECT", " ", "client_id", " ">> \o authenticated_client_id

IsAggregate(sql_lower) == \E i \in 1..Len(sql_lower) : sql_lower[i] = "count("

ReferencesOtherClient(sql_lower, authenticated_client_id) ==
    /\ \E i \in 1..Len(sql_lower) : sql_lower[i] = "client_id"
    /\ ~Contains(sql_lower, SqlLower(authenticated_client_id))
    /\ ~IsAggregate(sql_lower)

Analytical(sql_query, result, query_type, privacy_compliant, calls) ==
    [ sql_query |-> sql_query, result |-> result, query_type |-> query_type,
      privacy_compliant |-> privacy_compliant, calls |-> calls ]

(* run_analytical_query; the question only reaches the prompt of the        *)
(* language model, whose answer is `content'                                *)
run_analytical_query(authenticated_client_id, context, content, outcome) ==
    LET client_profile == execute_query(ContextQuery(authenticated_client_id), context)
        sql_query == CleanSql(content)
        sql_lower == SqlLower(sql_query)
    IN  IF content = LlmFailure
        THEN Analytical(None, None, "error", FALSE, client_profile.calls)
        ELSE IF ~validate_read_only(sql_query)
        THEN Analytical(sql_query, None, "blocked", FALSE, client_profile.calls)
        ELSE IF ReferencesOtherClient(sql_lower, authenticated_client_id)
        THEN Analytical(sql_query, None, "blocked", FALSE, client_profile.calls)
        ELSE IF outcome = "error"
        THEN Analytical(None, None, "error", FALSE,
                        Append(client_profile.calls, sql_query))
        ELSE Analytical(sql_query, Rows,
                        IF IsAggregate(sql_lower) THEN "aggregate" ELSE "individual_own",
                        TRUE, Append(client_profile.calls, sql_query))

(* get_client_profile.  What the language model writes for a search is    *)
(* one of a few texts, or it fails.                                         *)
GeneratedQueries == { <<"SELECT">>, <<"fence", "SELECT", " ">>, <<"DROP">> }

ProfileArgs == { None, EmptyStr, <<"v">> }

NotSearched ==
    [ sql_query |-> None, result |-> None, search_method |-> "not_found",
      calls |-> <<>>, searched |-> <<>> ]

(* One try block: _generate_query, then _execute_query; an exception       *)
(* leaves the variables as they were                                        *)
profile_search(before, method, content, outcome) ==
    LET sql_query == CleanSql(content)
        found == execute_query(sql_query, outcome)
    IN  IF content = LlmFailure
        THEN [before EXCEPT !.searched = Append(@, method)]
        ELSE [ sql_query |-> sql_query,
               result |-> found.result,
               search_method |-> IF found.result # None THEN method
                                 ELSE before.search_method,
               calls |-> before.calls \o found.calls,
               searched |-> Append(before.searched, method) ]

(* Faulty variant: the fallback runs with either of the two arguments *)
FallbackWanted_either(result, postal_code, client_name) ==
    result = None /\ (Truthy(postal_code) \/ Truthy(client_name))

FallbackWanted(result, postal_code, client_name) ==
    result = None /\ Truthy(postal_code) /\ Truthy(client_name)

get_client_profile(client_id, postal_code, client_name, c1, o1, c2, o2) ==
    LET first == IF Truthy(client_id)
                 THEN profile_search(NotSearched, "client_id", c1, o1)
                 ELSE NotSearched
    IN  IF FallbackWanted(first.result, postal_code, client_name)
        THEN profile_search(first, "postal_code_and_name", c2, o2)
        ELSE first

ProfileRequests ==
    [ name : {"get_client_profile"},
      client_id : ProfileArgs, postal_code : ProfileArgs, client_name : ProfileArgs,
      c1 : GeneratedQueries \cup {LlmFailure}, o1 : DbOutcomes,
      c2 : GeneratedQueries \cup {LlmFailure}, o2 : DbOutcomes ]

ExecuteRequests ==
    [ name : {"execute_query"}, sql_query : SqlTexts, outcome : DbOutcomes ]

AnalyticalRequests ==
    [ name : {"run_analytical_query"}, authenticated_client_id : AuthIds,
      context : DbOutcomes, content : SqlTexts \cup {LlmFailure},
      outcome : {"error", "rows"} ]

(* The state of a process that holds an SQLRunner and no cache *)
NoCache ==
    /\ emb = [t \in Texts |-> 0]
    /\ now = 0
    /\ up = FALSE
    /\ disk = Absent
    /\ docs = <<>>
    /\ op = Blank
    /\ filledAt = [n \in Names |-> -1]

InitSql ==
    /\ NoCache
    /\ req \in ExecuteRequests \cup AnalyticalRequests \cup ProfileRequests
    /\ tool = Idle

ExecuteQuery ==
    /\ tool = Idle
    /\ req.name = "execute_query"
    /\ LET r == execute_query(req.sql_query, req.outcome)
       IN  tool' = [ name |-> "execute_query", sql_query |-> req.sql_query,
                     result |-> r.result, calls |-> r.calls ]
    /\ UNCHANGED <<req, emb, now, up, docs, disk, op, filledAt>>

RunAnalyticalQuery ==
    /\ tool = Idle
    /\ req.name = "run_analytical_query"
    /\ LET r == run_analytical_query(req.authenticated_client_id, req.context,
                                     req.content, req.outcome)
       IN  tool' = [ name |-> "run_analytical_query", sql_query |-> r.sql_query,
                     result |-> r.result, calls |-> r.calls,
                     query_type |-> r.query_type,
                     privacy_compliant |-> r.privacy_compliant ]
    /\ UNCHANGED <<req, emb, now, up, docs, disk, op, filledAt>>

GetClientProfile ==
    /\ tool = Idle
    /\ req.name = "get_client_profile"
    /\ LET r == get_client_profile(req.client_id, req.postal_code, req.client_name,
                                   req.c1, req.o1, req.c2, req.o2)
       IN  tool' = [ name |-> "get_client_profile", sql_query |-> r.sql_query,
                     result |-> r.result, calls |-> r.calls,
                     search_method |-> r.search_method, searched |-> r.searched ]
    /\ UNCHANGED <<req, emb, now, up, docs, disk, op, filledAt>>

-----------------------------------------------------------------------------
(* BreweryFinder (tools/brewery_finder.py).  A name is a sequence of words  *)
(* and blanks; the answer of the directory is a timeout, a status other     *)
(* than 200, a body that is neither a list nor a message, a message, or a   *)
(* list of breweries.                                                       *)

ApiNames == { EmptyStr, <<"A">>, <<"b">>, <<"A", " ", "co">> }

HistoryNames == { <<" ", "a">>, <<"B">> }

SearchNames == { None, <<"a", " ", "co">>, <<"b">> }

ApiLists == UNION { [1..n -> ApiNames] : n \in 0..MaxFound }

ApiResponses ==
    [ kind : {"timeout", "status", "format", "message"}, data : {<<>>} ]
    \cup [ kind : {"list"}, data : ApiLists ]

(* the breweries of a list, each with its place in the answer as its id *)
BreweriesOf(data) == [k \in 1..Len(data) |-> [id |-> k, name |-> data[k]]]

normalize_brewery_name(name) == SqlStrip(LowerStr(name))

(* simplified.replace(" co", ""): every occurrence goes, not only the last *)
WithoutSuffix(name) ==
    LET keep == { i \in 1..Len(name) :
                    /\ ~(name[i] = " " /\ i < Len(name) /\ name[i + 1] = "co")
                    /\ ~(name[i] = "co" /\ i > 1 /\ name[i - 1] = " ") }
    IN  [k \in 1..Cardinality(keep) |->
            name[CHOOSE i \in keep : Cardinality({ j \in keep : j <= i }) = k]]

simplify_brewery_name(name) ==
    LET simplified == SqlStrip(LowerStr(name))
    IN  IF Len(simplified) >= 2 /\ simplified[Len(simplified)] = "co"
           /\ simplified[Len(simplified) - 1] = " "
        THEN SqlStrip(WithoutSuffix(simplified))
        ELSE simplified

(* Faulty variant: the names are compared as they are written *)
is_brewery_new_exact(brewery_name, brewery_history) ==
    brewery_name \notin brewery_history

is_brewery_new(brewery_name, brewery_history) ==
    normalize_brewery_name(brewery_name)
        \notin { normalize_brewery_name(h) : h \in brewery_history }

call_api(response) ==
    IF response.kind = "list"
    THEN [status |-> "success", data |-> BreweriesOf(response.data)]
    ELSE IF response.kind = "message"
    THEN [status |-> "success", data |-> <<>>]
    ELSE [status |-> "API_ERROR", data |-> <<>>]

filter_new_breweries(breweries, brewery_history) ==
    LET IsNew(brewery) ==
            brewery.name # EmptyStr /\ is_brewery_new(brewery.name, brewery_history)
    IN  SelectSeq(breweries, IsNew)

(* Step 2.5: the breweries whose simplified name holds, or is held by, the *)
(* simplified name searched for                                             *)
best_matches(breweries, brewery_name) ==
    LET simplified_search == simplify_brewery_name(brewery_name)
        Matches(brewery) ==
            \/ Contains(simplified_search, simplify_brewery_name(brewery.name))
            \/ Contains(simplify_brewery_name(brewery.name), simplified_search)
    IN  SelectSeq(breweries, Matches)

Narrowed(breweries, brewery_name) ==
    IF Truthy(brewery_name) /\ best_matches(breweries, brewery_name) # <<>>
    THEN best_matches(breweries, brewery_name)
    ELSE breweries

format_brewery_result(brewery) ==
    [brewery_id |-> brewery.id, brewery_name |-> brewery.name]

Formatted(breweries) ==
    [k \in 1..Len(breweries) |-> format_brewery_result(breweries[k])]

(* search_breweries; city, state and brewery_type only reach the request   *)
(* sent to the directory, and a brewery_history of None is the empty list   *)
search_breweries(response, brewery_history, brewery_name, filter_history) ==
    LET api_result == call_api(response)
        breweries == Narrowed(api_result.data, brewery_name)
        new_breweries == IF filter_history
                         THEN filter_new_breweries(breweries, brewery_history)
                         ELSE breweries
    IN  IF api_result.status # "success"
        THEN [status |-> "API_ERROR", data |-> <<>>, total_found |-> 0]
        ELSE IF api_result.data = <<>>
        THEN [status |-> "NO_BREWERIES", data |-> <<>>, total_found |-> 0]
        ELSE IF filter_history /\ new_breweries = <<>>
        THEN [status |-> "NO_NEW_BREWERIES", data |-> <<>>,
              total_found |-> Len(breweries)]
        ELSE [status |-> "success", data |-> Formatted(new_breweries),
              total_found |-> Len(breweries)]

SearchRequests ==
    [ name : {"search_breweries"}, response : ApiResponses,
      brewery_history : SUBSET HistoryNames, brewery_name : SearchNames,
      filter_history : BOOLEAN ]

InitBrewery ==
    /\ NoCache
    /\ req \in SearchRequests
    /\ tool = Idle

SearchBreweries ==
    /\ tool = Idle
    /\ req.name = "search_breweries"
    /\ LET r == search_breweries(req.response, req.brewery_history,
                                 req.brewery_name, req.filter_history)
       IN  tool' = [ name |-> "search_breweries", status |-> r.status,
                     data |-> r.data, total_found |-> r.total_found ]
    /\ UNCHANGED <<req, emb, now, up, docs, disk, op, filledAt>>

-----------------------------------------------------------------------------
(* The cache used in memory: lookups, inserts, refreshes and statistics *)

Next ==
    \/ Tick
    \/ \E q \in Names, k \in 0..MaxTopK, n \in Names \cup {None, EmptyStr} :
          SearchCache(q, k, n)
    \/ \E n \in Names, c \in Contents, t \in BreweryTypes :
          AddToCache(n, GoodUrl, c, t)
    \/ \E n \in Names, c \in Contents, t \in BreweryTypes :
          UpdateCacheEntry(n, GoodUrl, c, t)
    \/ GetCacheStats

Spec == Init /\ [][Next]_vars

(* The summarizer in front of the cache *)

NextWeb ==
    \/ Tick
    \/ \E n \in Names, u \in Urls, t \in BreweryTypes : GetWebsiteSummary(n, u, t)

(* The summarizer never asks for statistics: one embedding of their query *)
InitWeb == Init /\ emb[StatsQuery] = 0

SpecWeb == InitWeb /\ [][NextWeb]_vars

(* The cache across restarts: inserts, snapshots and new instances *)

NextDisk ==
    \/ Tick
    \/ Construct
    \/ DeleteIndexDir
    \/ SaveIndex
    \/ \E t \in BreweryTypes : AddToCache(<<"a">>, GoodUrl, <<"y">>, t)
    \/ \E t \in BreweryTypes : UpdateCacheEntry(<<"a">>, GoodUrl, <<"y">>, t)
    \/ \E q \in Names : SearchCache(q, 1, q)
    \/ GetCacheStats

SpecDisk == Init /\ [][NextDisk]_vars

(* SQLRunner: one call, its request drawn at the start *)

NextSql ==
    \/ ExecuteQuery
    \/ RunAnalyticalQuery
    \/ GetClientProfile

SpecSql == InitSql /\ [][NextSql]_vars

(* BreweryFinder: one search, its request drawn at the start *)

NextBrewery == SearchBreweries

SpecBrewery == InitBrewery /\ [][NextBrewery]_vars

-----------------------------------------------------------------------------
(* Properties *)

IsLookup == op.name = "search_cache"

IsInsert == op.name \in {"add_to_cache", "update_cache_entry"}

(* A lookup that reached the index and got at least one entry back *)
Answered == IsLookup /\ ~op.failed /\ op.top # Nothing

(* s occurs in t as a run of consecutive characters, letter case ignored *)
OccursIn(s, t) ==
    \E i \in 1..(Len(t) - Len(s) + 1) :
        SubSeq(LowerStr(t), i, i + Len(s) - 1) = LowerStr(s)

StoredName(d) == IF d.brewery_name = None THEN EmptyStr ELSE d.brewery_name

PassesName(n, d) == ~Truthy(n) \/ OccursIn(n, StoredName(d))

(* Less than ttl_days + 1 whole days have passed since t *)
WithinTtl(t, at) == at - t < (TtlDays + 1) * TicksPerDay

(* C1: a lookup by name that immediately follows a successful insert of    *)
(* that name returns CACHE_HIT with the content just inserted.              *)
C1_RoundTripHit ==
    [][ ( /\ op.name = "add_to_cache" /\ op.ok
          /\ op'.name = "search_cache" /\ ~op'.failed /\ op'.top # Nothing
          /\ op'.query = op.brewery_name /\ op'.brewery_name = op.brewery_name )
        => ( /\ op'.status = "CACHE_HIT"
             /\ op'.entry # Nothing
             /\ op'.entry[1].summary = op.summary ) ]_vars

(* C2: once a request for a name has missed and filled the cache, every     *)
(* later request for that name with a valid URL, made within ttl_days, is   *)
(* answered from the cache without a grounded search.                       *)
C2_CachingPromise ==
    [][ \A n \in Names :
          ( /\ filledAt[n] >= 0 /\ WithinTtl(filledAt[n], now')
            /\ op'.name = "get_website_summary" /\ op'.brewery_name = n
            /\ op'.calls # <<>> /\ ~op'.failed )
          => ( /\ op'.source = "cache_hit"
               /\ op'.status = "CACHE_HIT"
               /\ op'.calls = <<"search_cache">> ) ]_vars

(* C3: an entry added by insert or refresh is indexed under the embedding   *)
(* of its subject name.                                                     *)
C3_IndexedByName ==
    (IsInsert /\ op.ok) => docs[Len(docs)].vec = emb[op.brewery_name]

C5_MissingDate ==
    ( /\ Answered /\ op.top[1].type # "system"
      /\ PassesName(op.brewery_name, op.top[1])
      /\ op.top[1].creation_date.kind = "none" )
    => (op.status = "CACHE_STALE" /\ op.entry = Nothing)

W_C5_MissingDate ==
    /\ Answered /\ op.top[1].type # "system"
    /\ Truthy(op.brewery_name)
    /\ op.top[1].creation_date.kind = "none"
    /\ op.status = "CACHE_STALE"

(* C6: with a name supplied, the lookup is a miss unless that name occurs,  *)
(* letter case ignored, in the stored name of the top-ranked entry; the     *)
(* entries ranked after it are never consulted.                             *)
C6_NameCheck ==
    ( /\ IsLookup /\ Truthy(op.brewery_name)
      /\ (op.top = Nothing \/ ~OccursIn(op.brewery_name, StoredName(op.top[1]))) )
    => (op.status = "CACHE_MISS" /\ op.entry = Nothing)

W_C6_NoFallback ==
    /\ Answered /\ op.top[1].type # "system"
    /\ op.brewery_name = <<"A", "b">> /\ op.top[1].brewery_name = <<"a">>
    /\ \E i \in 1..Len(docs) : docs[i].brewery_name = <<"A", "b">>
    /\ op.status = "CACHE_MISS"

(* C7: the bootstrap entry is never served: a lookup that gets nothing or   *)
(* gets the bootstrap entry first is a miss, and on an index that holds     *)
(* only the bootstrap entry every lookup is a miss and the statistics count *)
(* no entry.                                                                *)
C7_SystemNeverServed ==
    /\ (IsLookup /\ ~op.failed /\ (op.top = Nothing \/ op.top[1].type = "system"))
          => (op.status = "CACHE_MISS" /\ op.entry = Nothing)
    /\ (IsLookup /\ op.entry # Nothing) => op.entry[1].summary # Initialization
    /\ (\A i \in 1..Len(docs) : docs[i].type = "system")
          => /\ IsLookup => (op.status = "CACHE_MISS" /\ op.entry = Nothing)
             /\ op.name = "get_cache_stats" => op.stats.total_entries = 0

W_C7_SystemOnTop ==
    /\ Answered /\ op.top[1].type = "system" /\ ~Truthy(op.brewery_name)
    /\ Len(docs) > 1
    /\ op.status = "CACHE_MISS"

(* C8: a lookup whose embedding call or index search fails returns          *)
(* CACHE_MISS and no entry, and raises nothing.                             *)
C8_LookupFailure ==
    (IsLookup /\ op.failed)
    => (~op.raised /\ op.status = "CACHE_MISS" /\ op.entry = Nothing)

W_C8_LookupFailure ==
    /\ IsLookup /\ op.failed /\ op.status = "CACHE_MISS"
    /\ \E i \in 1..Len(docs) :
          docs[i].type = "brewery_summary" /\ docs[i].brewery_name = op.query

(* C9: insert and refresh never raise; they return false and leave the      *)
(* index alone when the embedding or the write fails, and return true only  *)
(* when the new entry was appended.                                         *)
C9_InsertResult ==
    [][ op'.name \in {"add_to_cache", "update_cache_entry"}
        => /\ ~op'.raised
           /\ op'.failed => ~op'.ok
           /\ ~op'.ok => docs' = docs
           /\ op'.ok => /\ ~op'.failed
                        /\ Len(docs') = Len(docs) + 1
                        /\ SubSeq(docs', 1, Len(docs)) = docs
                        /\ docs'[Len(docs')].type = "brewery_summary"
                        /\ docs'[Len(docs')].brewery_name = op'.brewery_name
                        /\ docs'[Len(docs')].page_content = op'.summary
                        /\ docs'[Len(docs')].creation_date = [kind |-> "iso", t |-> now]
      ]_vars

W_C9_FailedRefresh ==
    /\ op.name = "update_cache_entry" /\ op.failed /\ ~op.ok /\ ~op.raised
    /\ Len(docs) > 1

C11_AppendOnly ==
    [][ op'.name \in {"search_cache", "add_to_cache", "update_cache_entry",
                      "save_index", "get_cache_stats"}
        => /\ Len(docs') >= Len(docs)
           /\ \A i \in 1..Len(docs) : docs'[i] = docs[i]
           /\ IF op'.name \in {"add_to_cache", "update_cache_entry"} /\ op'.ok
              THEN /\ Len(docs') = Len(docs) + 1
                   /\ docs'[Len(docs')].type = "brewery_summary"
                   /\ docs'[Len(docs')].creation_date = [kind |-> "iso", t |-> now']
              ELSE docs' = docs
      ]_vars

W_C11_SecondEntrySameName ==
    /\ IsInsert /\ op.ok
    /\ \E i \in 1..(Len(docs) - 1) :
          /\ docs[i].type = "brewery_summary"
          /\ docs[i].brewery_name = op.brewery_name
          /\ docs[i].creation_date.kind = "iso"
          /\ docs[i].creation_date.t < now
    /\ docs[Len(docs)].brewery_name = op.brewery_name

(* The totals the statistics can report for an index *)
StatsTotals(store) ==
    { get_cache_stats(all_docs, now, TRUE).total_entries :
         all_docs \in similarity_search(store, StatsQuery, StatsWidth) }

(* C12: a successful insert or refresh never lowers the total the          *)
(* statistics report, whether or not the name is already in the index and  *)
(* whether or not the index is larger than the statistics sample.          *)
C12_TotalNeverDecreases ==
    [][ (op'.name \in {"add_to_cache", "update_cache_entry"} /\ op'.ok)
        => \A before \in { get_cache_stats(all_docs, now, TRUE).total_entries :
                               all_docs \in similarity_search(docs, StatsQuery, StatsWidth) } :
              \A after \in { get_cache_stats(all_docs, now', TRUE).total_entries :
                                all_docs \in similarity_search(docs', StatsQuery, StatsWidth) } :
                 after >= before
      ]_vars

W_C12_BeyondSample ==
    /\ IsInsert /\ op.ok
    /\ Len(docs) > StatsWidth
    /\ \E i \in 1..(Len(docs) - 1) :
          docs[i].type = "brewery_summary" /\ docs[i].brewery_name = op.brewery_name
    /\ \A t \in StatsTotals(docs) : t = StatsWidth

(* What a lookup by name can return on an index: status and entry *)
LookupResults(store, n, at) ==
    { [status |-> search_cache(found, n, at, TRUE).status,
       entry |-> search_cache(found, n, at, TRUE).entry] :
         found \in similarity_search(store, n, 1) }

C15_LoadOrCreate ==
    op.name = "init"
    => /\ (op.path = "ok" /\ op.error \in {"none", "embed"})
             => (~op.raised /\ up /\ docs = disk.docs)
       /\ ( \/ (op.path \in {"nodir", "absent", "corrupt"} /\ op.error \in {"none", "load"})
            \/ (op.path = "ok" /\ op.error = "load") )
             => /\ ~op.raised /\ up
                /\ Len(docs) = 1
                /\ docs[1].type = "system"
                /\ docs[1].page_content = Initialization
                /\ docs[1].creation_date = [kind |-> "iso", t |-> now]

W_C15_FreshAfterDelete ==
    /\ op.name = "init" /\ op.path = "nodir" /\ op.error = "none"
    /\ op.held > 1
    /\ disk.state = "absent"
    /\ Len(docs) = 1 /\ docs[1].type = "system"

(* C16: an instance that was constructed, with a fresh index or with one   *)
(* loaded from a snapshot, holds at least one system entry after every     *)
(* insert, refresh and persist, so its index is never empty.                *)
C16_SystemEntryPresent ==
    up => (Len(docs) >= 1 /\ \E i \in 1..Len(docs) : docs[i].type = "system")

W_C16_LoadedAfterInserts ==
    /\ up /\ op.name = "init" /\ op.path = "ok" /\ op.error = "none"
    /\ Len(docs) = MaxDocs
    /\ docs[1].type = "system"
    /\ docs[1].creation_date.kind = "iso" /\ docs[1].creation_date.t < now
    /\ \A i \in 2..Len(docs) : docs[i].type = "brewery_summary"

(* C17: when the lookup by name is a CACHE_HIT, the summarizer returns the  *)
(* summary of the entry found with source cache_hit and cache_status       *)
(* CACHE_HIT; it makes no grounded search, no insert and no persist, and    *)
(* leaves the index and the snapshot as they are.                           *)
C17_HitPath ==
    [][ ( /\ op'.name = "get_website_summary" /\ op'.calls # <<>>
          /\ search_cache(op'.top, op'.brewery_name, now, ~op'.failed).status
                = "CACHE_HIT" )
        => /\ op'.source = "cache_hit"
           /\ op'.status = "CACHE_HIT"
           /\ op'.error = "N/A"
           /\ op'.summary = op'.top[1].page_content
           /\ op'.calls = <<"search_cache">>
           /\ docs' = docs
           /\ disk' = disk ]_vars

W_C17_ServedFromCache ==
    /\ op.name = "get_website_summary" /\ op.source = "cache_hit"
    /\ op.top # Nothing
    /\ op.top[1].brewery_name = op.brewery_name
    /\ op.summary = <<"y">>
    /\ filledAt[op.brewery_name] >= 0

(* The summarizer looked up, did not hit, and the grounded search gave a   *)
(* summary (seen from the state after the request)                         *)
FillCase ==
    /\ op.name = "get_website_summary" /\ Len(op.calls) >= 2
    /\ Truthy(op.grounded)

(* C18 as stated: after a lookup that is a miss or stale and a grounded     *)
(* search that gives a summary, the summarizer calls insert and then       *)
(* persist, and returns the new summary with source web_search and the     *)
(* status of the lookup.                                                    *)
C18_FillPath ==
    [][ ( /\ op'.name = "get_website_summary" /\ Len(op'.calls) >= 2
          /\ Truthy(op'.grounded)
          /\ search_cache(op'.top, op'.brewery_name, now, ~op'.failed).status
                \in {"CACHE_MISS", "CACHE_STALE"} )
        => /\ op'.calls = <<"search_cache", "grounded_search_summary",
                            "add_to_cache", "save_index">>
           /\ op'.source = "web_search"
           /\ op'.summary = op'.grounded
           /\ op'.status = search_cache(op'.top, op'.brewery_name, now,
                                        ~op'.failed).status ]_vars

(* C18 as amended: in that case the summarizer calls insert after the       *)
(* lookup and the grounded search, and calls persist after it exactly when *)
(* insert returned true; the entry inserted carries the new summary, the   *)
(* snapshot changes only through that persist, and the new summary is      *)
(* returned with source web_search and the status of the lookup whatever   *)
(* insert and persist returned.                                             *)
C18_FillPathPersistsWhenInserted ==
    [][ ( /\ op'.name = "get_website_summary" /\ Len(op'.calls) >= 2
          /\ Truthy(op'.grounded)
          /\ search_cache(op'.top, op'.brewery_name, now, ~op'.failed).status
                \in {"CACHE_MISS", "CACHE_STALE"} )
        => /\ op'.source = "web_search"
           /\ op'.error = "N/A"
           /\ op'.summary = op'.grounded
           /\ op'.status = search_cache(op'.top, op'.brewery_name, now,
                                        ~op'.failed).status
           /\ IF op'.ok
              THEN /\ op'.calls = <<"search_cache", "grounded_search_summary",
                                    "add_to_cache", "save_index">>
                   /\ Len(docs') = Len(docs) + 1
                   /\ \A i \in 1..Len(docs) : docs'[i] = docs[i]
                   /\ docs'[Len(docs')].page_content = op'.grounded
                   /\ docs'[Len(docs')].brewery_name = op'.brewery_name
                   /\ docs'[Len(docs')].url = op'.url
                   /\ \/ disk' = [state |-> "ok", docs |-> docs']
                      \/ disk' = disk
                      \/ disk'.state = "corrupt"
              ELSE /\ op'.calls = <<"search_cache", "grounded_search_summary",
                                    "add_to_cache">>
                   /\ docs' = docs
                   /\ disk' = disk ]_vars

W_C18_StaleRefilled ==
    /\ FillCase /\ op.status = "CACHE_STALE" /\ op.ok
    /\ op.top # Nothing /\ op.top[1].creation_date.kind = "iso"
    /\ op.calls = <<"search_cache", "grounded_search_summary",
                    "add_to_cache", "save_index">>
    /\ docs[Len(docs)].page_content = op.summary
    /\ disk.state = "ok" /\ disk.docs = docs

(* C19: when the grounded search gives no summary after a lookup that did  *)
(* not hit, the summarizer returns error GROUNDING_FAILED with the status  *)
(* of the lookup, calls neither insert nor persist, and leaves the index   *)
(* and the snapshot as they are.                                            *)
C19_GroundingFailed ==
    [][ ( /\ op'.name = "get_website_summary" /\ Len(op'.calls) >= 2
          /\ op'.grounded \in {None, EmptyStr} )
        => /\ op'.error = "GROUNDING_FAILED"
           /\ op'.status = search_cache(op'.top, op'.brewery_name, now,
                                        ~op'.failed).status
           /\ op'.status \in {"CACHE_MISS", "CACHE_STALE"}
           /\ op'.calls = <<"search_cache", "grounded_search_summary">>
           /\ ~op'.ok
           /\ docs' = docs
           /\ disk' = disk ]_vars

W_C19_EmptySummaryAfterStale ==
    /\ op.name = "get_website_summary" /\ op.error = "GROUNDING_FAILED"
    /\ op.grounded = EmptyStr
    /\ op.status = "CACHE_STALE"
    /\ op.top # Nothing /\ op.top[1].brewery_name = op.brewery_name

(* C20: a URL that is empty or has no scheme or no host makes the           *)
(* summarizer return source error and error INVALID_URL without a lookup,  *)
(* a grounded search, an insert or a persist.                               *)
C20_InvalidUrl ==
    [][ ( /\ op'.name = "get_website_summary"
          /\ (op'.url.raw = "" \/ op'.url.scheme = "" \/ op'.url.netloc = "") )
        => /\ op'.source = "error"
           /\ op'.error = "INVALID_URL"
           /\ op'.calls = <<>>
           /\ op'.top = Nothing
           /\ ~op'.ok
           /\ docs' = docs
           /\ disk' = disk ]_vars

W_C20_NoHostOnFilledCache ==
    /\ op.name = "get_website_summary" /\ op.error = "INVALID_URL"
    /\ op.url.scheme # "" /\ op.url.netloc = ""
    /\ filledAt[op.brewery_name] >= 0
    /\ op.calls = <<>>

(* C21: a failing cache never hides a summary.  Whenever the grounded       *)
(* search was made and gave a summary, the summarizer returns that summary *)
(* with source web_search and no error, whether the lookup failed, insert   *)
(* returned false or persist returned false.                                *)
C21_FailureNeverMasks ==
    ( /\ op.name = "get_website_summary" /\ Len(op.calls) >= 2
      /\ op.grounded \notin {None, EmptyStr} )
    => /\ op.source = "web_search"
       /\ op.error = "N/A"
       /\ op.summary = op.grounded

(* persist was called and the snapshot does not hold the index: it failed *)
W_C21_PersistFailed ==
    /\ op.name = "get_website_summary"
    /\ op.calls = <<"search_cache", "grounded_search_summary",
                    "add_to_cache", "save_index">>
    /\ disk # [state |-> "ok", docs |-> docs]
    /\ op.summary = <<"y">> /\ op.error = "N/A"

(* The positions of a sample that hold summaries, and those of them whose  *)
(* timestamp is an ISO one not older than ttl_days whole days               *)
SummariesOf(sample) == { i \in 1..Len(sample) : sample[i].type = "brewery_summary" }

FreshOf(sample, at) ==
    { i \in SummariesOf(sample) :
         /\ sample[i].creation_date.kind = "iso"
         /\ WithinTtl(sample[i].creation_date.t, at) }

-----------------------------------------------------------------------------
(* The read-only guard of SQLRunner *)

HandledSql ==
    IF tool.name = "execute_query" THEN req.sql_query ELSE CleanSql(req.content)

(* the position of the first token of `sql' after position i that is not a *)
(* blank, or 0                                                              *)
NextWord(sql, i) ==
    IF \E j \in (i + 1)..Len(sql) : sql[j] # " "
    THEN CHOOSE j \in (i + 1)..Len(sql) :
            sql[j] # " " /\ \A k \in (i + 1)..(j - 1) : sql[k] = " "
    ELSE 0

StartsSelectAfter(sql, i) ==
    NextWord(sql, i) # 0 /\ SqlLower(sql)[NextWord(sql, i)] = "select"

AcceptedShape(sql) ==
    /\ StartsSelectAfter(sql, 0)
    /\ \A i \in 1..Len(sql) : SqlLower(sql)[i] \notin {"drop", "dropped"}
    /\ \A i \in 1..Len(sql) :
          (sql[i] = ";" /\ NextWord(sql, i) # 0 /\ sql[NextWord(sql, i)] # ";")
              => StartsSelectAfter(sql, i)

(* C23: every text handed to the database by _execute_query or             *)
(* run_analytical_query was accepted by _validate_read_only, and an         *)
(* accepted text starts with SELECT, holds no forbidden keyword, and each   *)
(* of its non-empty semicolon parts starts with SELECT; a rejected text     *)
(* never reaches the database and yields no result (None, and for the       *)
(* analytical query the type "blocked").                                    *)
C23_ReadOnlyGuard ==
    tool.name \in {"execute_query", "run_analytical_query"} =>
        /\ \A i \in 1..Len(tool.calls) :
              validate_read_only(tool.calls[i]) /\ AcceptedShape(tool.calls[i])
        /\ ( /\ tool.name = "run_analytical_query" => req.content # LlmFailure
             /\ ~validate_read_only(HandledSql) )
           => /\ tool.result = None
              /\ \A i \in 1..Len(tool.calls) : tool.calls[i] # HandledSql
              /\ tool.name = "run_analytical_query" => tool.query_type = "blocked"

W_C23_SecondStatementBlocked ==
    /\ tool.name = "run_analytical_query"
    /\ req.content = <<"SELECT", ";", "DROP">>
    /\ tool.query_type = "blocked"
    /\ tool.calls = <<ContextQuery(<<"me">>), ContextQuery(<<"me">>)>>

-----------------------------------------------------------------------------
(* The order of the searches of get_client_profile *)

(* the search with this generated text and this answer of the database     *)
(* returned a row                                                           *)
ReturnedRow(content, outcome) ==
    /\ content # LlmFailure
    /\ AcceptedShape(content) \/ AcceptedShape(SelectSeq(content, IsNotFence))
    /\ outcome = "row"

FirstReturned == Truthy(req.client_id) /\ ReturnedRow(req.c1, req.o1)

SecondTried ==
    ~FirstReturned /\ Truthy(req.postal_code) /\ Truthy(req.client_name)

(* C24: get_client_profile searches by client_id first when a client_id is *)
(* given, runs the combined postal_code and client_name search only when    *)
(* the client_id search produced no result and both are given, and reports  *)
(* 'client_id' or 'postal_code_and_name' exactly when that search returned  *)
(* a row, and otherwise 'not_found' with no result.                         *)
C24_SearchOrder ==
    tool.name = "get_client_profile" =>
        /\ tool.searched =
              (IF Truthy(req.client_id) THEN <<"client_id">> ELSE <<>>)
              \o (IF SecondTried THEN <<"postal_code_and_name">> ELSE <<>>)
        /\ tool.search_method = "client_id" <=> FirstReturned
        /\ tool.search_method = "postal_code_and_name"
              <=> (SecondTried /\ ReturnedRow(req.c2, req.o2))
        /\ tool.search_method \in {"client_id", "postal_code_and_name", "not_found"}
        /\ tool.search_method = "not_found" <=> tool.result = None
        /\ tool.result \in {None, Row}

W_C24_FallbackFound ==
    /\ tool.name = "get_client_profile"
    /\ tool.searched = <<"client_id", "postal_code_and_name">>
    /\ req.o1 = "empty" /\ Len(tool.calls) = 3
    /\ tool.search_method = "postal_code_and_name"
    /\ tool.result = Row

-----------------------------------------------------------------------------
(* The status of search_breweries *)

ApiSucceeded == req.response.kind \in {"list", "message"}

FoundNames == req.response.data

(* the name equals, but for case and the blanks around it, a name of the   *)
(* history                                                                  *)
InHistory(name) ==
    \E h \in req.brewery_history :
        SqlStrip(LowerStr(h)) = SqlStrip(LowerStr(name))

(* the data keeps the order of the answer, and holds names of it *)
KeepsApiOrder ==
    /\ \A i, j \in 1..Len(tool.data) :
          i < j => tool.data[i].brewery_id < tool.data[j].brewery_id
    /\ \A i \in 1..Len(tool.data) :
          /\ tool.data[i].brewery_id \in 1..Len(FoundNames)
          /\ tool.data[i].brewery_name = FoundNames[tool.data[i].brewery_id]

SuccessData ==
    /\ tool.data # <<>>
    /\ KeepsApiOrder
    /\ req.filter_history =>
          \A i \in 1..Len(tool.data) : ~InHistory(tool.data[i].brewery_name)

Considered ==
    LET all == 1..Len(FoundNames)
        search == simplify_brewery_name(req.brewery_name)
        near == { k \in all :
                    \/ Contains(search, simplify_brewery_name(FoundNames[k]))
                    \/ Contains(simplify_brewery_name(FoundNames[k]), search) }
    IN  IF Truthy(req.brewery_name) /\ near # {} THEN near ELSE all

-----------------------------------------------------------------------------
(* Entries of one name *)

-----------------------------------------------------------------------------
(* Stale content and the summarizer *)

-----------------------------------------------------------------------------
(* Calls that only read *)

(* C28: lookup and statistics change nothing.  For every query, name and   *)
(* top_k, and on the failure path too, search_cache and get_cache_stats     *)
(* leave the entries of the index and the snapshot on disk as they were,    *)
(* and the TTL the statistics report is the configured one.                 *)
C28_ReadOnlyCalls ==
    [][ op'.name \in {"search_cache", "get_cache_stats"}
        => /\ docs' = docs
           /\ disk' = disk
           /\ op'.name = "get_cache_stats" => op'.stats.ttl_days = TtlDays
      ]_vars

W_C28_FailedLookupKeepsIndex ==
    /\ op.name = "search_cache" /\ op.failed
    /\ Len(docs) = MaxDocs
    /\ disk.state = "ok" /\ Len(disk.docs) < Len(docs)

-----------------------------------------------------------------------------
(* Timestamps that cannot be read *)

(* the summaries of the index whose timestamp is of one of these kinds *)
SummariesDated(kinds) ==
    { i \in 1..Len(docs) :
        docs[i].type = "brewery_summary" /\ docs[i].creation_date.kind \in kinds }

UnreadableDate(kinds) ==
    /\ ( /\ Answered /\ op.top[1].type # "system"
         /\ PassesName(op.brewery_name, op.top[1])
         /\ op.top[1].creation_date.kind \in kinds )
       => /\ op.status = "CACHE_STALE"
          /\ op.entry # Nothing
          /\ op.entry[1].summary = op.top[1].page_content
    /\ ( /\ op.name = "get_cache_stats" /\ ~op.failed
         /\ Len(docs) <= StatsWidth )
       => op.stats.stale_entries >= Cardinality(SummariesDated(kinds))

(* C29, as stated: a creation date that is there but is no ISO timestamp   *)
(* makes the lookup return CACHE_STALE with the entry and its content, and  *)
(* makes the statistics count the entry as stale.                           *)
C29_PresentUnparseable == UnreadableDate({"empty", "bad"})

(* C29, amended: so it is for a creation date that is a non-empty text;    *)
(* the empty text is handled as a missing date.                             *)
C29_NonEmptyUnparseable == UnreadableDate({"bad"})

W_C29_BadDateStaleWithEntry ==
    /\ Answered /\ op.top[1].type = "brewery_summary"
    /\ Truthy(op.brewery_name)
    /\ op.top[1].creation_date = BadDate
    /\ op.status = "CACHE_STALE"
    /\ op.entry # Nothing /\ op.entry[1].summary = <<"y">>

-----------------------------------------------------------------------------
(* Staleness over time *)

Expired(d, at) == ~is_cache_valid(d.creation_date, at)

(* C30: staleness is monotone in time.  The clock never goes back; an      *)
(* entry that is classified stale stays so at every later time; an entry    *)
(* with a readable creation date is stale once more than ttl_days whole     *)
(* days have passed since that date; and a lookup is a CACHE_HIT only on an *)
(* entry that is none of the stale ones and is newer than each of them.     *)
C30_StalenessMonotone ==
    [][ /\ now' >= now
        /\ \A i \in 1..Len(docs) : Expired(docs[i], now) => Expired(docs[i], now')
        /\ \A i \in 1..Len(docs') :
              ( /\ docs'[i].creation_date.kind = "iso"
                /\ ~WithinTtl(docs'[i].creation_date.t, now') )
              => Expired(docs'[i], now')
        /\ ( op'.name = "search_cache" /\ now' = now /\ op'.status = "CACHE_HIT" )
           => \A i \in 1..Len(docs) :
                 Expired(docs[i], now)
                 => /\ op'.top[1] # docs[i]
                    /\ docs[i].creation_date.kind = "iso"
                          => op'.top[1].creation_date.t > docs[i].creation_date.t
      ]_vars

W_C30_HitOnNewerEntry ==
    /\ Answered /\ op.status = "CACHE_HIT"
    /\ \E i \in 1..Len(docs) :
          /\ docs[i].type = "brewery_summary"
          /\ docs[i].brewery_name = op.top[1].brewery_name
          /\ docs[i].creation_date.kind = "iso"
          /\ Expired(docs[i], now)
          /\ docs[i].creation_date.t < op.top[1].creation_date.t

=============================================================================
